---- MODULE Spec2Model ----
(***************************************************************************)
(* A model of the csync ownCloud (WebDAV) vio module,                      *)
(* src/modules/csync_owncloud.c.                                           *)
(*                                                                         *)
(* C strings are sequences of byte values (ASCII codes), so that strcmp,   *)
(* percent-decoding, base names and strtol are computed the way the code   *)
(* computes them.  NULL pointers are the value Null.                       *)
(*                                                                         *)
(* The module holds several specifications over one set of variables:      *)
(*   SpecList   the PROPFIND result callback building one catalog          *)
(*   SpecXlate  the two status translators                                 *)
(*   Spec       session, directory and namespace operations                *)
(*   SpecFile   the transfer context (open/creat/read/write/close)         *)
(***************************************************************************)
EXTENDS Integers, Sequences, FiniteSets, TLC

VARIABLES
    fetchCtx,     \* struct listdir_context being filled by results(), or Null
    lphase,       \* "idle" | "listing" | "done" | "failed": position in ne_simple_propfind
    arrived,      \* the set of hrefs the server has delivered to results() so far
    lastHref,     \* the href of the latest results() call, NullStr before the first
    lastSet,      \* the property set of the latest results() call
    xin,          \* input of the translator under test: [text, code]
    xout,         \* what the translator calls on xin returned, in call order
    _connected,   \* int _connected: 1 once dav_connect has succeeded
    dav_session,  \* struct dav_session_s, with the protocol the session was made for
    _fs,          \* csync_vio_file_stat_t _fs: the one-slot stat cache
    errno,        \* the C errno
    ret,          \* the latest call of the method table: what it returned and requested
    crashed,      \* the process has dereferenced a NULL pointer
    lastYield,    \* the stat record of the latest readdir call that yielded one
    fh,           \* struct transfer_context of the open file handle, or NoHandle
    tmpfs,        \* the files under /tmp/csync.*: name -> content, NullStr if absent
    remote,       \* the server's objects: path -> content, NullStr if absent
    committed,    \* path -> the bytes the latest write-mode close that returned
                  \* success had been given, NullStr if there is none
    closeInfo,    \* what the latest close did: the handle's temp file and its upload
    _authcb,      \* the credential callback vio_module_init stored, or "NULL"
    challenges    \* the authentication challenges ne_auth has answered, in order

vars == <<fetchCtx, lphase, arrived, lastHref, lastSet, xin, xout,
          _connected, dav_session, _fs, errno, ret, crashed, lastYield,
          fh, tmpfs, remote, committed, closeInfo, _authcb, challenges>>

listVars == <<fetchCtx, lphase, arrived, lastHref, lastSet>>
xlateVars == <<xin, xout, _authcb, challenges>>
sessionVars == <<_connected, dav_session>>
callVars == <<_fs, errno, ret, crashed, lastYield>>
fileVars == <<fh, tmpfs, remote, committed, closeInfo>>

\* a NULL pointer to a struct, and a NULL char pointer
Null == [null |-> TRUE]
NullStr == <<-1>>

-----------------------------------------------------------------------------
(* Bounds of the model *)

\* the largest number of entries one PROPFIND answer delivers
MaxEntries == 4

\* the largest number of digits that start a session error text
MaxDigits == 3

\* the number of times a translator is called on one input
MaxCalls == 2

\* the largest number of bytes written to one file
MaxFileLen == 2

\* the number of names mkstemp can still hand out
MaxTmp == 1

\* the number of times read(2) fails on one handle
MaxReadErrors == 1

\* the largest attempt count the transport passes to ne_auth
MaxAttempt == 2

\* the number of authentication challenges of one behavior
MaxChallenges == 2

-----------------------------------------------------------------------------
(* C strings *)

\* strcmp(3): the sign of the byte-wise lexicographic comparison
RECURSIVE strcmp(_, _)
strcmp(a, b) ==
    IF a = <<>> /\ b = <<>> THEN 0
    ELSE IF a = <<>> THEN -1
    ELSE IF b = <<>> THEN 1
    ELSE IF Head(a) < Head(b) THEN -1
    ELSE IF Head(a) > Head(b) THEN 1
    ELSE strcmp(Tail(a), Tail(b))

\* tolower(3) on one byte
ToLower(c) == IF c >= 65 /\ c <= 90 THEN c + 32 ELSE c

\* the string with every byte lower-cased (what strcasecmp compares)
LowerStr(s) == [i \in 1..Len(s) |-> ToLower(s[i])]

\* the first n bytes of s
Prefix(s, n) == SubSeq(s, 1, IF n < Len(s) THEN n ELSE Len(s))

\* value of a hexadecimal digit, -1 when the byte is none
HexVal(c) ==
    IF c >= 48 /\ c <= 57 THEN c - 48
    ELSE IF c >= 65 /\ c <= 70 THEN c - 55
    ELSE IF c >= 97 /\ c <= 102 THEN c - 87
    ELSE -1

\* neon ne_path_unescape: every %XX becomes the byte it encodes; NULL when a
\* % is not followed by two hexadecimal digits
RECURSIVE ne_path_unescape(_)
ne_path_unescape(s) ==
    IF s = <<>> THEN <<>>
    ELSE IF Head(s) = 37
    THEN IF Len(s) >= 3 /\ HexVal(s[2]) >= 0 /\ HexVal(s[3]) >= 0
         THEN LET rest == ne_path_unescape(SubSeq(s, 4, Len(s)))
              IN  IF rest = NullStr THEN NullStr
                  ELSE <<16 * HexVal(s[2]) + HexVal(s[3])>> \o rest
         ELSE NullStr
    ELSE LET rest == ne_path_unescape(Tail(s))
         IN  IF rest = NullStr THEN NullStr ELSE <<Head(s)>> \o rest

\* neon ne_path_compare: 0 when the two paths are equal without regard to
\* case, or differ only by one trailing slash
ne_path_compare(a, b) ==
    LET cmp    == strcmp(LowerStr(a), LowerStr(b))
        traila == a # <<>> /\ a[Len(a)] = 47
        trailb == b # <<>> /\ b[Len(b)] = 47
        lena   == Len(a)
        lenb   == Len(b)
        minlen == IF lena < lenb THEN lena ELSE lenb
    IN  IF cmp # 0
           /\ traila # trailb
           /\ (lena - lenb = 1 \/ lenb - lena = 1)
           /\ ((traila /\ lena > lenb) \/ (trailb /\ lenb > lena))
           /\ LowerStr(Prefix(a, minlen)) = LowerStr(Prefix(b, minlen))
        THEN 0
        ELSE cmp

\* the string without its trailing slashes
RECURSIVE StripSlashes(_)
StripSlashes(s) ==
    IF s # <<>> /\ s[Len(s)] = 47 THEN StripSlashes(SubSeq(s, 1, Len(s) - 1)) ELSE s

\* the part of s after its last slash
RECURSIVE AfterLastSlash(_)
AfterLastSlash(s) ==
    IF s = <<>> THEN <<>>
    ELSE IF s[Len(s)] = 47 THEN <<>>
    ELSE AfterLastSlash(SubSeq(s, 1, Len(s) - 1)) \o <<s[Len(s)]>>

\* csync c_basename: "." for an empty path, "/" for slashes only, else the
\* last component without trailing slashes
c_basename(path) ==
    IF path = NullStr \/ path = <<>> THEN <<46>>
    ELSE IF StripSlashes(path) = <<>> THEN <<47>>
    ELSE AfterLastSlash(StripSlashes(path))

\* strtol/strtoull(s, &p, 10) on a string of an optional sign and digits:
\* [val, rest] with rest what p points at; no digits leave p at s
RECURSIVE Digits(_, _)
Digits(s, acc) ==
    IF s # <<>> /\ Head(s) >= 48 /\ Head(s) <= 57
    THEN Digits(Tail(s), 10 * acc + (Head(s) - 48))
    ELSE [val |-> acc, rest |-> s]

RECURSIVE SkipSpace(_)
SkipSpace(s) == IF s # <<>> /\ Head(s) = 32 THEN SkipSpace(Tail(s)) ELSE s

strtol(s) ==
    LET t    == SkipSpace(s)
        neg  == t # <<>> /\ Head(t) = 45
        body == IF t # <<>> /\ (Head(t) = 45 \/ Head(t) = 43) THEN Tail(t) ELSE t
        d    == Digits(body, 0)
    IN  IF d.rest = body
        THEN [val |-> 0, rest |-> s]
        ELSE [val |-> IF neg THEN 0 - d.val ELSE d.val, rest |-> d.rest]

-----------------------------------------------------------------------------
(* enum resource_type *)

resr_normal == "resr_normal"
resr_collection == "resr_collection"
resr_reference == "resr_reference"
resr_error == "resr_error"

\* neon result codes (ne_session.h)
NE_OK == 0
NE_ERROR == 1
NE_LOOKUP == 2
NE_AUTH == 3
NE_PROXYAUTH == 4
NE_CONNECT == 5
NE_TIMEOUT == 6
NE_FAILED == 7
NE_RETRY == 8
NE_REDIRECT == 9

\* errno values (errno.h)
EPERM == 1
ENOENT == 2
EIO == 5
EAGAIN == 11
ENOMEM == 12
EACCES == 13
EINVAL == 22
ENOSPC == 28

-----------------------------------------------------------------------------
(* Status translator *)

\* the switch with every 2xx code under the success label
StatusErrno_all_2xx(err) ==
    IF (err >= 200 /\ err <= 299) \/ err = 304 THEN 0
    ELSE IF err \in {401, 402, 407} THEN EPERM
    ELSE IF err \in {301, 303, 404, 410} THEN ENOENT
    ELSE IF err \in {408, 504} THEN EAGAIN
    ELSE IF err = 423 THEN EACCES
    ELSE IF err \in {400, 403, 405, 409, 411, 412, 414, 415, 424, 501} THEN EINVAL
    ELSE IF err \in {413, 507} THEN ENOSPC
    ELSE EIO

\* the switch with the label of 423 moved to the invalid-request group
StatusErrno_423_invalid(err) ==
    IF err \in {200, 201, 202, 203, 204, 205, 207, 304} THEN 0
    ELSE IF err \in {401, 402, 407} THEN EPERM
    ELSE IF err \in {301, 303, 404, 410} THEN ENOENT
    ELSE IF err \in {408, 504} THEN EAGAIN
    ELSE IF err \in {400, 403, 405, 409, 411, 412, 414, 415, 423, 424, 501} THEN EINVAL
    ELSE IF err \in {413, 507} THEN ENOSPC
    ELSE EIO

\* the switch of ne_session_error_errno on the parsed status code
StatusErrno(err) ==
    IF err \in {200, 201, 202, 203, 204, 205, 207, 304} THEN 0
    ELSE IF err \in {401, 402, 407} THEN EPERM
    ELSE IF err \in {301, 303, 404, 410} THEN ENOENT
    ELSE IF err \in {408, 504} THEN EAGAIN
    ELSE IF err = 423 THEN EACCES
    ELSE IF err \in {400, 403, 405, 409, 411, 412, 414, 415, 424, 501} THEN EINVAL
    ELSE IF err \in {413, 507} THEN ENOSPC
    ELSE IF err \in {206, 300, 302, 305, 306, 307, 406, 416, 417, 422,
                     500, 502, 503, 505} THEN EIO
    ELSE EIO

\* ne_session_error_errno: the errno for the status code that starts the
\* session's error text, EIO when the text starts with no number
ne_session_error_errno(text) ==
    LET r == strtol(text)
    IN  IF r.rest = text THEN EIO ELSE StatusErrno(r.val)

\* a translator that takes the generic error code for an I/O failure
ne_error_to_errno_error_is_eio(ne_err) ==
    IF ne_err = NE_OK THEN 0
    ELSE IF ne_err \in {NE_AUTH, NE_PROXYAUTH} THEN EACCES
    ELSE IF ne_err \in {NE_CONNECT, NE_TIMEOUT, NE_RETRY} THEN EAGAIN
    ELSE IF ne_err = NE_FAILED THEN EINVAL
    ELSE IF ne_err = NE_REDIRECT THEN ENOENT
    ELSE EIO

\* ne_error_to_errno: the errno for a transport result code
ne_error_to_errno(ne_err) ==
    IF ne_err \in {NE_OK, NE_ERROR} THEN 0
    ELSE IF ne_err \in {NE_AUTH, NE_PROXYAUTH} THEN EACCES
    ELSE IF ne_err \in {NE_CONNECT, NE_TIMEOUT, NE_RETRY} THEN EAGAIN
    ELSE IF ne_err = NE_FAILED THEN EINVAL
    ELSE IF ne_err = NE_REDIRECT THEN ENOENT
    ELSE IF ne_err = NE_LOOKUP THEN EIO
    ELSE EIO

-----------------------------------------------------------------------------
(* The PROPFIND answer: hrefs and property sets the server can deliver *)

\* "/d" and "/d/": the request URIs of the listing, as _cleanPath leaves them
T_d == <<47, 100>>
T_dslash == <<47, 100, 47>>

\* "/d/b/", "/d/a", "/d/z", "/d/B", "/d/a%20c": the children of /d on the wire
H_b == <<47, 100, 47, 98, 47>>
H_a == <<47, 100, 47, 97>>
H_z == <<47, 100, 47, 122>>
H_B == <<47, 100, 47, 66>>
H_a_c == <<47, 100, 47, 97, 37, 50, 48, 99>>

\* "/e%20f", the request URI of a collection whose name holds a space, with
\* its own href "/e%20f/" and its child "/e%20f/x"
T_e_f == <<47, 101, 37, 50, 48, 102>>
H_e_f == <<47, 101, 37, 50, 48, 102, 47>>
H_e_f_x == <<47, 101, 37, 50, 48, 102, 47, 120>>

\* the request URIs of the listings
Targets == {T_d, T_dslash, T_e_f}

\* the hrefs the answer to a PROPFIND on target is drawn from: the
\* collection itself and its children
Hrefs(target) ==
    IF target = T_e_f THEN {H_e_f, H_e_f_x}
    ELSE {T_dslash, H_b, H_a, H_z, H_B, H_a_c}

\* values of the DAV:resourcetype property
RT_collection == "<DAV:collection></DAV:collection>"
RT_other == "<DAV:principal/>"

\* strncmp(resourcetype, "<DAV:collection>", 16) == 0
IsCollectionType(resourcetype) == resourcetype = RT_collection

\* a DAV:getlastmodified text: an RFC 1123 date of time t, or text that is no date
DateText(t) == [fmt |-> "rfc1123", t |-> t]
DateGarbage == [fmt |-> "garbage", t |-> 0]
NoDate == [fmt |-> "none", t |-> 0]

\* neon ne_httpdate_parse: the time of a date text, (time_t)-1 when it is none
ne_httpdate_parse(d) == IF d.fmt = "rfc1123" THEN d.t ELSE -1

\* the property sets of the answer (ls_props): getlastmodified,
\* getcontentlength, resourcetype; a property the answer lacks is NULL
NoProp == "NULL"
PropSets ==
    { [modtime |-> DateText(100), clength |-> <<49, 48>>, resourcetype |-> NoProp],
      [modtime |-> DateText(50), clength |-> NullStr, resourcetype |-> RT_collection],
      [modtime |-> DateGarbage, clength |-> <<49, 50, 120>>, resourcetype |-> RT_other],
      [modtime |-> NoDate, clength |-> <<48>>, resourcetype |-> RT_collection] }

\* the property set of an answer that reports none of ls_props
NoPropSet == [modtime |-> NoDate, clength |-> NullStr, resourcetype |-> NoProp]

-----------------------------------------------------------------------------
(* Resource catalog builder *)

\* compare_resource with the tier test of the last branch lost: a file is
\* compared with a collection by uri
compare_resource_uri_only(r1, r2) ==
    IF r1.type = resr_error THEN -1
    ELSE IF r2.type = resr_error THEN 1
    ELSE IF r1.type = resr_collection
         THEN IF r2.type # resr_collection THEN -1 ELSE strcmp(r1.uri, r2.uri)
         ELSE strcmp(r1.uri, r2.uri)

\* compare_resource: errors first, then collections, then the rest, each
\* by strcmp of the uri
compare_resource(r1, r2) ==
    IF r1.type = resr_error THEN -1
    ELSE IF r2.type = resr_error THEN 1
    ELSE IF r1.type = resr_collection
         THEN IF r2.type # resr_collection THEN -1 ELSE strcmp(r1.uri, r2.uri)
         ELSE IF r2.type # resr_collection THEN strcmp(r1.uri, r2.uri) ELSE 1

\* the index of the first element of list that does not precede newres
\* (Len(list) + 1 when every element precedes it): the scan of results()
RECURSIVE ScanFrom(_, _, _)
ScanFrom(list, newres, i) ==
    IF i > Len(list) THEN i
    ELSE IF compare_resource(list[i], newres) >= 0 THEN i
    ELSE ScanFrom(list, newres, i + 1)

\* a results() that collects the entries in arrival order
InsertResource_in_arrival_order(list, newres) == Append(list, newres)

\* the splice of results(): newres goes in before position i
InsertResource(list, newres) ==
    LET i == ScanFrom(list, newres, 1)
    IN  SubSeq(list, 1, i - 1) \o <<newres>> \o SubSeq(list, i, Len(list))

\* a results() that classifies by the resourcetype property alone
NewResource_type_from_resourcetype(path, set) ==
    LET upath == ne_path_unescape(path)
        hasLen == set.clength # NullStr
        num == IF hasLen THEN strtol(set.clength) ELSE [val |-> 0, rest |-> <<>>]
    IN  [ uri     |-> upath,
          name    |-> c_basename(upath),
          type    |-> IF set.resourcetype # NoProp /\ IsCollectionType(set.resourcetype)
                      THEN resr_collection ELSE resr_normal,
          modtime |-> IF set.modtime # NoDate THEN ne_httpdate_parse(set.modtime) ELSE 0,
          size    |-> IF hasLen /\ num.rest = <<>> THEN num.val ELSE 0 ]

\* the resource results() builds from one href and its properties; the
\* struct comes zeroed from c_malloc, so a missing property leaves 0
NewResource(path, set) ==
    LET upath == ne_path_unescape(path)
        hasLen == set.clength # NullStr
        num == IF hasLen THEN strtol(set.clength) ELSE [val |-> 0, rest |-> <<>>]
    IN  [ uri     |-> upath,
          name    |-> c_basename(upath),
          type    |-> IF ~hasLen /\ set.resourcetype # NoProp
                         /\ IsCollectionType(set.resourcetype)
                      THEN resr_collection ELSE resr_normal,
          modtime |-> IF set.modtime # NoDate THEN ne_httpdate_parse(set.modtime) ELSE 0,
          size    |-> IF hasLen /\ num.rest = <<>> THEN num.val ELSE 0 ]

\* results() telling the target by strcmp instead of ne_path_compare
results_exact_compare(ctx, path, set) ==
    IF ctx.target = NullStr THEN ctx
    ELSE IF strcmp(ctx.target, path) = 0 /\ ctx.include_target = 0 THEN ctx
    ELSE [ctx EXCEPT !.list = InsertResource(ctx.list, NewResource(path, set)),
                     !.result_count = @ + 1]

\* results(): the per-entry callback of the PROPFIND
results(ctx, path, set) ==
    IF ctx.target = NullStr THEN ctx
    ELSE IF ne_path_compare(ctx.target, path) = 0 /\ ctx.include_target = 0 THEN ctx
    ELSE [ctx EXCEPT !.list = InsertResource(ctx.list, NewResource(path, set)),
                     !.result_count = @ + 1]

\* a fresh listdir_context as _opendir and _stat set it up
NewFetchCtx(target, include_target) ==
    [list |-> <<>>, currResource |-> 0, target |-> target,
     include_target |-> include_target, result_count |-> 0]

\* fetch_resource_list after ne_simple_propfind returned rc
fetch_resource_list_return(ctx, rc) ==
    IF rc = NE_OK
    THEN [ctx EXCEPT !.currResource = IF ctx.list = <<>> THEN 0 ELSE 1]
    ELSE ctx

-----------------------------------------------------------------------------
(* The URIs the engine passes, and the adapter's process-wide state *)

\* "owncloud://h/d", "ownclouds://joe:pw@h/d/a" and a URI ne_uri_parse
\* rejects, "owncloud://h/d/x y"
U_d == [valid |-> TRUE, scheme |-> "owncloud", user |-> "NULL", pwd |-> "NULL",
        path |-> T_d]
U_d_a == [valid |-> TRUE, scheme |-> "ownclouds", user |-> "joe", pwd |-> "pw",
          path |-> H_a]
U_bad == [valid |-> FALSE, scheme |-> "owncloud", user |-> "NULL", pwd |-> "NULL",
          path |-> <<47, 100, 47, 120, 32, 121>>]
Uris == {U_d, U_d_a, U_bad}

\* neon ne_path_escape on the bytes the model's paths hold: a blank and a
\* percent sign are percent-encoded
RECURSIVE ne_path_escape(_)
ne_path_escape(s) ==
    IF s = <<>> THEN <<>>
    ELSE IF Head(s) = 32 THEN <<37, 50, 48>> \o ne_path_escape(Tail(s))
    ELSE IF Head(s) = 37 THEN <<37, 50, 53>> \o ne_path_escape(Tail(s))
    ELSE <<Head(s)>> \o ne_path_escape(Tail(s))

\* _cleanPath (the file defines it as _cleanUrl): NULL when the URI does not
\* parse, else the escaped path
_cleanPath(uri) == IF ~uri.valid THEN NullStr ELSE ne_path_escape(uri.path)

\* the session before dav_connect has run
NoSession ==
    [ctx |-> "NULL", user |-> "NULL", pwd |-> "NULL", protocol |-> "unset",
     created |-> 0]

\* the protocol buffer of dav_connect after its scheme test
ProtocolOf(scheme) ==
    IF scheme = "owncloud" THEN "http"
    ELSE IF scheme # "ownclouds" THEN "https"
    ELSE "uninitialized"

\* what the transport library does when dav_connect reaches it: "ok",
\* "sock" (ne_sock_init fails) or "sess" (ne_session_create returns NULL);
\* a connected adapter does not reach it
ConnectEnvs(connected) == IF connected = 1 THEN {"ok"} ELSE {"ok", "sock", "sess"}

\* a dav_connect that sets the connected flag before it creates the session
dav_connect_fresh_flag_first(session, uri, env) ==
    IF ~uri.valid THEN [rc |-> -1, connected |-> 0, session |-> session]
    ELSE LET s1 == IF uri.user # "NULL"
                   THEN [session EXCEPT !.user = uri.user, !.pwd = uri.pwd]
                   ELSE session
         IN  IF env = "sock" THEN [rc |-> -1, connected |-> 1, session |-> s1]
             ELSE IF env = "sess"
                  THEN [rc |-> -1, connected |-> 1,
                        session |-> [s1 EXCEPT !.ctx = "NULL"]]
                  ELSE [rc |-> 0, connected |-> 1,
                        session |-> [s1 EXCEPT !.ctx = "live",
                                               !.protocol = ProtocolOf(uri.scheme),
                                               !.created = @ + 1]]

\* dav_connect past its test of the connected flag: [rc, connected,
\* session] after the call
dav_connect_fresh(session, uri, env) ==
    IF ~uri.valid THEN [rc |-> -1, connected |-> 0, session |-> session]
    ELSE LET s1 == IF uri.user # "NULL"
                   THEN [session EXCEPT !.user = uri.user, !.pwd = uri.pwd]
                   ELSE session
         IN  IF env = "sock" THEN [rc |-> -1, connected |-> 0, session |-> s1]
             ELSE IF env = "sess"
                  THEN [rc |-> -1, connected |-> 0,
                        session |-> [s1 EXCEPT !.ctx = "NULL"]]
                  ELSE [rc |-> 0, connected |-> 1,
                        session |-> [s1 EXCEPT !.ctx = "live",
                                               !.protocol = ProtocolOf(uri.scheme),
                                               !.created = @ + 1]]

\* a dav_connect that does not look at the connected flag
dav_connect_every_time(connected, session, uri, env) ==
    dav_connect_fresh(session, uri, env)

\* dav_connect: [rc, connected, session] after the call
dav_connect(connected, session, uri, env) ==
    IF connected = 1 THEN [rc |-> 0, connected |-> 1, session |-> session]
    ELSE dav_connect_fresh(session, uri, env)

\* the texts ne_get_error can hold after a failed request: "404", "207"
\* and "C", a text that starts with no number
SessionErrors == {<<52, 48, 52>>, <<50, 48, 55>>, <<67>>}

\* the result codes the request functions return in Spec: success, the
\* generic error of a status outside 2xx, and one code of each errno group
NeResults == {NE_OK, NE_ERROR, NE_AUTH, NE_TIMEOUT, NE_FAILED}

\* a request on this session with this path can end the process: it
\* dereferences a NULL pointer, or it uses a session that was destroyed
RequestCrashes(session, path) == session.ctx # "live" \/ path = NullStr

\* a request on this session with this path can come back: always on a
\* live session, and on a destroyed one when its memory still reads as a
\* session
RequestReturns(session, path) ==
    session.ctx \in {"live", "destroyed"} /\ path # NullStr

-----------------------------------------------------------------------------
(* Stat records *)

\* a _stat_perms that gives every entry the mode of a regular file
_stat_perms_all_regular(type) ==
    [fmt |-> "S_IFREG", perm |-> {"rusr", "wusr", "rgrp", "roth"}]

\* _stat_perms: the mode synthesized from the type alone
_stat_perms(type) ==
    IF type = "DIRECTORY"
    THEN [fmt |-> "S_IFDIR", perm |-> {"rusr", "wusr", "xusr", "rgrp", "xgrp",
                                        "roth", "xoth"}]
    ELSE [fmt |-> "S_IFREG", perm |-> {"rusr", "wusr", "rgrp", "roth"}]

\* resourceToFileStat: the csync_vio_file_stat_t of a resource; the record
\* comes zeroed from c_malloc, so the type of an error or reference resource
\* stays UNKNOWN
resourceToFileStat(res) ==
    [ name   |-> res.name,
      fields |-> (IF res.type \in {resr_normal, resr_collection} THEN {"TYPE"} ELSE {})
                 \cup {"MTIME", "SIZE"},
      type   |-> IF res.type = resr_normal THEN "REGULAR"
                 ELSE IF res.type = resr_collection THEN "DIRECTORY"
                 ELSE "UNKNOWN",
      mtime  |-> res.modtime,
      size   |-> res.size ]

\* the stat cache of a fresh process: a zeroed static struct
EmptyCache ==
    [name |-> NullStr, live |-> FALSE, fields |-> {}, type |-> "UNKNOWN",
     mtime |-> 0, size |-> 0]

\* the stat buffer a caller passes in, before _stat fills it
NoBuf ==
    [fields |-> {}, type |-> "UNKNOWN", mtime |-> 0, size |-> 0,
     mode |-> [fmt |-> "unset", perm |-> {}]]

\* the buffer as _stat fills it from a cache entry or a stat record
BufFrom(st) ==
    [fields |-> st.fields, type |-> st.type, mtime |-> st.mtime, size |-> st.size,
     mode |-> _stat_perms(st.type)]

\* the buffer the network path of _stat hands back after the listing ctx:
\* filled from the first entry of the list, left as it was passed in when
\* the list is empty (resourceToFileStat(NULL) is NULL)
stat_buf(ctx) ==
    IF ctx.currResource = 0 THEN NoBuf
    ELSE BufFrom(resourceToFileStat(ctx.list[ctx.currResource]))

\* the call freed nothing of a catalog
NoRelease == [res |-> <<>>, target |-> 0, handle |-> 0, cursor |-> 0]

\* what one call of the method table did: the value it returned (0, -1 for
\* failure or a NULL handle, -2 when the call crashed and never returned),
\* the URI it was given, the requests it issued, the result code of its
\* last request (-1 when it issued none), the stat record or buffer it
\* handed back, and what it freed of a catalog: how often each Resource, the
\* target and the handle, and where the cursor stood
Call(op, rc, uri, reqs, ne, buf) ==
    [op |-> op, rc |-> rc, uri |-> uri, reqs |-> reqs, ne |-> ne, buf |-> buf,
     freed |-> NoRelease]

\* no call of the method table has returned yet
NoCall == Call("none", 0, <<>>, <<>>, -1, NoBuf)

\* one protocol request, as the transport sees it
Request(method, path) == [method |-> method, path |-> path]

InitSessionIdle ==
    /\ _connected = 0
    /\ dav_session = NoSession

InitCallIdle ==
    /\ _fs = EmptyCache
    /\ errno = 0
    /\ ret = NoCall
    /\ crashed = FALSE
    /\ lastYield = EmptyCache

-----------------------------------------------------------------------------
(* Transfer context and the stores it moves bytes between *)

\* the names mkstemp("/tmp/csync.XXXXXX") hands out
TmpNames == 1..MaxTmp

\* the paths of the server's objects the file operations address: "/d/a"
RemotePaths == {H_a}

\* no file handle is open (the caller holds NULL)
NoHandle ==
    [open |-> FALSE, method |-> "", fd |-> "none", tmpFileName |-> 0,
     bytes_written |-> 0, pos |-> 0, path |-> <<>>,
     given |-> <<>>, allfull |-> TRUE, expect |-> NullStr, got |-> <<>>,
     eof |-> FALSE, rerr |-> 0]

\* no close has run yet
NoClose == [tmp |-> 0, method |-> "", dispatched |-> FALSE, rc |-> -1, klass |-> 0]

InitFileIdle ==
    /\ fh = NoHandle
    /\ tmpfs = [n \in TmpNames |-> NullStr]
    /\ remote = [p \in RemotePaths |-> NullStr]
    /\ committed = [p \in RemotePaths |-> NullStr]
    /\ closeInfo = NoClose

-----------------------------------------------------------------------------
(* SpecList: one PROPFIND, its entries arriving in any order *)

\* result codes ne_simple_propfind can return
PropfindResults == {NE_OK, NE_ERROR, NE_TIMEOUT}

InitAuthIdle ==
    /\ _authcb = "NULL"
    /\ challenges = <<>>

InitXlateIdle ==
    /\ xin = [kind |-> "none", text |-> <<>>, code |-> 0]
    /\ xout = <<>>
    /\ InitAuthIdle

InitList ==
    /\ \E t \in Targets \cup {NullStr} : \E inc \in {0, 1} :
          fetchCtx = NewFetchCtx(t, inc)
    /\ lphase = "listing"
    /\ arrived = {}
    /\ lastHref = NullStr
    /\ lastSet = NoPropSet
    /\ InitXlateIdle
    /\ InitSessionIdle
    /\ InitCallIdle
    /\ InitFileIdle

\* the transport calls results() for one more entry of the answer
ListResults ==
    /\ lphase = "listing"
    /\ Cardinality(arrived) < MaxEntries
    /\ \E h \in Hrefs(fetchCtx.target) \ arrived : \E set \in PropSets :
          /\ fetchCtx' = results(fetchCtx, h, set)
          /\ arrived' = arrived \cup {h}
          /\ lastHref' = h
          /\ lastSet' = set
    /\ UNCHANGED <<lphase, xlateVars, sessionVars, callVars, fileVars>>

\* ne_simple_propfind returns
ListReturn ==
    /\ lphase = "listing"
    /\ \E rc \in PropfindResults :
          /\ fetchCtx' = fetch_resource_list_return(fetchCtx, rc)
          /\ lphase' = IF rc = NE_OK THEN "done" ELSE "failed"
    /\ UNCHANGED <<arrived, lastHref, lastSet, xlateVars, sessionVars, callVars, fileVars>>

NextList == ListResults \/ ListReturn

SpecList == InitList /\ [][NextList]_vars

-----------------------------------------------------------------------------
(* SpecXlate: the two translators on every input of a bounded set *)

\* session error texts: optional blank, up to MaxDigits digits, optional
\* reason phrase (" N"); with no digit the text starts with no number
DigitStrings == UNION {[1..n -> 48..57] : n \in 0..MaxDigits}
ErrorTexts ==
    {pre \o d \o suf : pre \in {<<>>, <<32>>}, d \in DigitStrings,
                       suf \in {<<>>, <<32, 78>>}}

\* transport result codes: the ten neon codes and two no header names
TransportCodes == -1..10

InitListIdle ==
    /\ fetchCtx = NewFetchCtx(NullStr, 0)
    /\ lphase = "idle"
    /\ arrived = {}
    /\ lastHref = NullStr
    /\ lastSet = NoPropSet

InitXlate ==
    /\ \/ \E t \in ErrorTexts : xin = [kind |-> "text", text |-> t, code |-> 0]
       \/ \E c \in TransportCodes : xin = [kind |-> "code", text |-> <<>>, code |-> c]
    /\ xout = <<>>
    /\ InitAuthIdle
    /\ InitListIdle
    /\ InitSessionIdle
    /\ InitCallIdle
    /\ InitFileIdle

\* a caller translates the session's error text
XlateSession ==
    /\ xin.kind = "text"
    /\ Len(xout) < MaxCalls
    /\ xout' = Append(xout, ne_session_error_errno(xin.text))
    /\ UNCHANGED <<listVars, xin, _authcb, challenges, sessionVars, callVars, fileVars>>

\* a caller translates a transport result code
XlateTransport ==
    /\ xin.kind = "code"
    /\ Len(xout) < MaxCalls
    /\ xout' = Append(xout, ne_error_to_errno(xin.code))
    /\ UNCHANGED <<listVars, xin, _authcb, challenges, sessionVars, callVars, fileVars>>

NextXlate == XlateSession \/ XlateTransport

SpecXlate == InitXlate /\ [][NextXlate]_vars

-----------------------------------------------------------------------------
(* Spec: session, directory and namespace operations *)

\* the largest number of entries the answer to one PROPFIND of Spec holds
MaxDirEntries == 2

\* the resources of the server: the collection /d, its sub-collection
\* /d/b/ and its file /d/a
Store == {T_dslash, H_b, H_a}

\* the properties the server reports for a resource of the store
ServerProps(h) ==
    IF h \in {T_dslash, H_b}
    THEN [modtime |-> DateText(50), clength |-> NullStr, resourcetype |-> RT_collection]
    ELSE [modtime |-> DateText(100), clength |-> <<49, 48>>, resourcetype |-> NoProp]

\* h is the href of the resource at path or of one of its children
SelfOrChild(h, path) ==
    LET t == StripSlashes(path)
    IN  Len(h) >= Len(t) /\ SubSeq(h, 1, Len(t)) = t
        /\ (Len(h) = Len(t) \/ h[Len(t) + 1] = 47)

\* the answers a depth-one PROPFIND on path can deliver
Answers(path) ==
    {a \in SUBSET {h \in Store : SelfOrChild(h, path)} : Cardinality(a) <= MaxDirEntries}

\* the context after ne_simple_propfind has called results() for every
\* entry of the answer
RECURSIVE ListAnswer(_, _)
ListAnswer(ctx, answer) ==
    IF answer = {} THEN ctx
    ELSE LET h == CHOOSE x \in answer : TRUE
         IN  ListAnswer(results(ctx, h, ServerProps(h)), answer \ {h})

\* no directory handle is open
NoFetchCtx == NewFetchCtx(NullStr, 0)

\* an _opendir that hands back its context whatever the listing returned
opendir_return_always(ctx, rc) == ctx

\* the handle _opendir returns once fetch_resource_list returned rc: NULL
\* on failure, else the context with its cursor on the first entry
opendir_return(ctx, rc) ==
    IF rc # NE_OK THEN NoFetchCtx
    ELSE [ctx EXCEPT !.currResource = IF ctx.list = <<>> THEN 0 ELSE 1]

Init ==
    /\ fetchCtx = NoFetchCtx
    /\ lphase = "idle"
    /\ arrived = {}
    /\ lastHref = NullStr
    /\ lastSet = NoPropSet
    /\ InitXlateIdle
    /\ InitSessionIdle
    /\ InitCallIdle
    /\ InitFileIdle

\* the call dereferenced a NULL pointer: the process is gone
Crash(op, uri, reqs) ==
    /\ crashed' = TRUE
    /\ ret' = Call(op, -2, uri.path, reqs, -1, NoBuf)
    /\ UNCHANGED <<errno>>

\* the call returned rc, with errno set to e
Return(op, rc, uri, reqs, ne, buf, e) ==
    /\ ret' = Call(op, rc, uri.path, reqs, ne, buf)
    /\ errno' = e
    /\ UNCHANGED crashed

\* _opendir
Opendir ==
    /\ ~crashed
    /\ lphase = "idle"
    /\ \E uri \in Uris, env \in ConnectEnvs(_connected) :
       LET c == dav_connect(_connected, dav_session, uri, env)
           curi == _cleanPath(uri)
           reqs == <<Request("PROPFIND", curi)>>
       IN  /\ _connected' = c.connected
           /\ dav_session' = c.session
           /\ \/ /\ RequestCrashes(c.session, curi)
                 /\ Crash("opendir", uri, reqs)
                 /\ UNCHANGED <<fetchCtx, lphase>>
              \/ \* the listing fails after the entries of answer were parsed
                 /\ RequestReturns(c.session, curi)
                 /\ \E rc \in PropfindResults \ {NE_OK}, text \in SessionErrors,
                       answer \in Answers(curi) :
                       /\ fetchCtx' = opendir_return(
                                         fetch_resource_list_return(
                                            ListAnswer(NewFetchCtx(curi, 0), answer), rc),
                                         rc)
                       /\ Return("opendir", -1, uri, reqs, rc, NoBuf,
                                 ne_session_error_errno(text))
                 /\ lphase' = IF fetchCtx' = NoFetchCtx THEN "idle" ELSE "open"
              \/ /\ RequestReturns(c.session, curi)
                 /\ \E answer \in Answers(curi) :
                       fetchCtx' = opendir_return(
                                      fetch_resource_list_return(
                                         ListAnswer(NewFetchCtx(curi, 0), answer), NE_OK),
                                      NE_OK)
                 /\ lphase' = "open"
                 /\ Return("opendir", 0, uri, reqs, NE_OK, NoBuf, errno)
    /\ UNCHANGED <<arrived, lastHref, lastSet, xlateVars, _fs, lastYield, fileVars>>

\* a cursor that stays on the entry it has yielded
resource_next_same(list, i) == i

\* currResource->next: the index of the entry after entry i of the list, 0
\* (NULL) after the last one
resource_next(list, i) == IF i < Len(list) THEN i + 1 ELSE 0

\* a _readdir that copies the record into the cache without its size
readdir_cache_without_size(lfs) ==
    [name |-> lfs.name, live |-> TRUE, fields |-> lfs.fields,
     type |-> lfs.type, mtime |-> lfs.mtime, size |-> 0]

\* the stat cache after _readdir has copied the record lfs into it; the
\* name is the record's own pointer, alive until the record is destroyed
readdir_cache(lfs) ==
    [name |-> lfs.name, live |-> TRUE, fields |-> lfs.fields,
     type |-> lfs.type, mtime |-> lfs.mtime, size |-> lfs.size]

\* _readdir
Readdir ==
    /\ ~crashed
    /\ lphase = "open"
    /\ IF fetchCtx.currResource = 0
       THEN /\ ret' = Call("readdir", -1, <<>>, <<>>, -1, NoBuf)
            /\ UNCHANGED <<fetchCtx, _fs, lastYield>>
       ELSE LET lfs == resourceToFileStat(fetchCtx.list[fetchCtx.currResource])
            IN  /\ fetchCtx' = [fetchCtx EXCEPT !.currResource =
                                   resource_next(fetchCtx.list, @)]
                /\ _fs' = readdir_cache(lfs)
                /\ lastYield' = [name |-> lfs.name, live |-> TRUE,
                                 fields |-> lfs.fields, type |-> lfs.type,
                                 mtime |-> lfs.mtime, size |-> lfs.size]
                /\ ret' = Call("readdir", 0, <<>>, <<>>, -1,
                               [NoBuf EXCEPT !.fields = lfs.fields, !.type = lfs.type,
                                             !.mtime = lfs.mtime, !.size = lfs.size])
    /\ UNCHANGED <<lphase, arrived, lastHref, lastSet, xlateVars, sessionVars, errno, crashed,
                   fileVars>>

\* the free counts of a list whose entries are freed from entry first on
\* (from none when first is 0)
FreedFrom(list, first) ==
    [i \in 1..Len(list) |-> IF first # 0 /\ i >= first THEN 1 ELSE 0]

\* a _closedir that starts its walk at the cursor
closedir_release_from_cursor(ctx) ==
    [res |-> FreedFrom(ctx.list, ctx.currResource), target |-> 1, handle |-> 1,
     cursor |-> ctx.currResource]

\* what _closedir frees: its walk starts at fetchCtx->list and follows next
\* to the end, then the target and the handle go
closedir_release(ctx) ==
    [res |-> FreedFrom(ctx.list, IF ctx.list = <<>> THEN 0 ELSE 1), target |-> 1,
     handle |-> 1, cursor |-> ctx.currResource]

\* _closedir
Closedir ==
    /\ ~crashed
    /\ lphase = "open"
    /\ fetchCtx' = NoFetchCtx
    /\ lphase' = "idle"
    /\ ret' = [Call("closedir", 0, <<>>, <<>>, -1, NoBuf)
                  EXCEPT !.freed = closedir_release(fetchCtx)]
    /\ UNCHANGED <<arrived, lastHref, lastSet, xlateVars, sessionVars, _fs, errno, crashed,
                   lastYield, fileVars>>

\* the caller destroys the stat record the latest readdir returned
\* (csync_vio_file_stat_destroy frees its name, which _fs.name points to)
DestroyStat ==
    /\ ~crashed
    /\ _fs.live
    /\ _fs' = [_fs EXCEPT !.live = FALSE]
    /\ UNCHANGED <<listVars, xlateVars, sessionVars, errno, ret, crashed, lastYield,
                   fileVars>>

\* _stat (the definition at lines 540-630); hit is what strcmp makes of a
\* cached name whose memory has been freed
Stat ==
    /\ ~crashed
    /\ \E uri \in Uris,
          hit \in IF _fs.name # NullStr /\ ~_fs.live THEN BOOLEAN ELSE {FALSE} :
       LET name == c_basename(uri.path)
           cached == /\ _fs.name # NullStr
                     /\ IF _fs.live THEN strcmp(name, _fs.name) = 0 ELSE hit
           curi == _cleanPath(uri)
           reqs == <<Request("PROPFIND", curi)>>
       IN  \/ /\ cached
              /\ Return("stat", 0, uri, <<>>, -1, BufFrom(_fs), errno)
           \/ /\ ~cached
              /\ RequestCrashes(dav_session, curi)
              /\ Crash("stat", uri, reqs)
           \/ /\ ~cached
              /\ RequestReturns(dav_session, curi)
              /\ \E rc \in PropfindResults \ {NE_OK}, text \in SessionErrors :
                    Return("stat", -1, uri, reqs, rc, NoBuf,
                           ne_session_error_errno(text))
           \/ /\ ~cached
              /\ RequestReturns(dav_session, curi)
              /\ \E answer \in Answers(curi) :
                 LET ctx == fetch_resource_list_return(
                                ListAnswer(NewFetchCtx(curi, 1), answer), NE_OK)
                 IN  Return("stat", 0, uri, reqs, NE_OK, stat_buf(ctx), errno)
    /\ UNCHANGED <<listVars, xlateVars, sessionVars, _fs, lastYield, fileVars>>

\* an ne_mkcol that requests the path it is given
ne_mkcol_uri_as_given(path) == path

\* neon ne_mkcol: the path of the MKCOL request it builds is the path it is
\* given, with a slash appended when it does not end in one; _mkdir itself
\* passes _cleanPath(uri) on as it is
ne_mkcol_uri(path) ==
    IF path = NullStr \/ (path # <<>> /\ path[Len(path)] = 47) THEN path
    ELSE path \o <<47>>

\* _mkdir and _rmdir: connect, one request, errno from ne_error_to_errno
MkRmdir(op, method) ==
    /\ ~crashed
    /\ \E uri \in Uris, env \in ConnectEnvs(_connected) :
       LET c == dav_connect(_connected, dav_session, uri, env)
           path == _cleanPath(uri)
           reqs == <<Request(method, IF method = "MKCOL" THEN ne_mkcol_uri(path)
                                     ELSE path)>>
       IN  /\ _connected' = c.connected
           /\ dav_session' = c.session
           /\ \/ /\ c.rc < 0
                 /\ Return(op, -1, uri, <<>>, -1, NoBuf, EINVAL)
              \/ /\ c.rc >= 0
                 /\ RequestCrashes(c.session, path)
                 /\ Crash(op, uri, reqs)
              \/ /\ c.rc >= 0
                 /\ RequestReturns(c.session, path)
                 /\ \E rc \in NeResults :
                       Return(op, IF rc # NE_OK THEN -1 ELSE 0, uri, reqs, rc, NoBuf,
                              IF rc # NE_OK THEN ne_error_to_errno(rc) ELSE errno)
    /\ UNCHANGED <<listVars, xlateVars, _fs, lastYield, fileVars>>

Mkdir == MkRmdir("mkdir", "MKCOL")

Rmdir == MkRmdir("rmdir", "DELETE")

\* _rename
Rename ==
    /\ ~crashed
    /\ \E olduri \in Uris, newuri \in Uris, env \in ConnectEnvs(_connected) :
       LET c == dav_connect(_connected, dav_session, olduri, env)
           src == _cleanPath(olduri)
           target == _cleanPath(newuri)
           reqs == <<Request("MOVE", src)>>
       IN  /\ _connected' = c.connected
           /\ dav_session' = c.session
           /\ \/ /\ c.rc < 0
                 /\ Return("rename", -1, olduri, <<>>, -1, NoBuf, EINVAL)
              \/ /\ c.rc >= 0
                 /\ (RequestCrashes(c.session, src) \/ target = NullStr)
                 /\ Crash("rename", olduri, reqs)
              \/ /\ c.rc >= 0
                 /\ RequestReturns(c.session, src) /\ target # NullStr
                 /\ \E rc \in NeResults :
                       Return("rename", IF rc # NE_OK THEN -1 ELSE 0, olduri, reqs, rc,
                              NoBuf,
                              IF rc # NE_OK THEN ne_error_to_errno(rc) ELSE errno)
    /\ UNCHANGED <<listVars, xlateVars, _fs, lastYield, fileVars>>

\* the value _unlink returns, whatever its request did
unlink_return(rc) == 0

\* _unlink
Unlink ==
    /\ ~crashed
    /\ \E uri \in Uris, env \in ConnectEnvs(_connected) :
       LET path == _cleanPath(uri)
           c == IF path = NullStr
                THEN [rc |-> NE_ERROR, connected |-> _connected, session |-> dav_session]
                ELSE dav_connect(_connected, dav_session, uri, env)
           reqs == <<Request("DELETE", path)>>
       IN  /\ _connected' = c.connected
           /\ dav_session' = c.session
           /\ \/ /\ c.rc # NE_OK
                 /\ Return("unlink", unlink_return(c.rc), uri, <<>>, -1, NoBuf, EINVAL)
              \/ /\ c.rc = NE_OK
                 /\ \E rc \in NeResults :
                       Return("unlink", unlink_return(rc), uri, reqs, rc, NoBuf,
                              IF rc # NE_OK THEN ne_error_to_errno(rc) ELSE errno)
    /\ UNCHANGED <<listVars, xlateVars, _fs, lastYield, fileVars>>

\* _utimes; has_times says whether the times argument is non-NULL
Utimes ==
    /\ ~crashed
    /\ \E uri \in Uris, has_times \in BOOLEAN :
       LET curi == _cleanPath(uri)
           reqs == <<Request("PROPPATCH", curi)>>
       IN  \/ /\ ~has_times
              /\ Return("utimes", -1, uri, <<>>, -1, NoBuf, 1)
           \/ /\ has_times
              /\ RequestCrashes(dav_session, curi)
              /\ Crash("utimes", uri, reqs)
           \/ /\ has_times
              /\ RequestReturns(dav_session, curi)
              /\ \E rc \in NeResults :
                    Return("utimes", IF rc # NE_OK THEN -1 ELSE 0, uri, reqs, rc, NoBuf,
                           IF rc # NE_OK THEN ne_error_to_errno(rc) ELSE errno)
    /\ UNCHANGED <<listVars, xlateVars, sessionVars, _fs, lastYield, fileVars>>

\* the modes, and the owner ids, a caller passes: 0644 and 0755, 0 and 1000
ModeOrOwner == {420, 493, 0, 1000}

\* a _chmod and _chown that reject a URI that does not parse
chmod_return_checks_uri(uri, arg) == IF uri.valid THEN 0 ELSE -1

\* the value _chmod and _chown return
chmod_return(uri, arg) == 0

\* _chmod and _chown
ChmodChown ==
    /\ ~crashed
    /\ \E uri \in Uris, op \in {"chmod", "chown"}, arg \in ModeOrOwner :
          ret' = Call(op, chmod_return(uri, arg), uri.path, <<>>, -1, NoBuf)
    /\ UNCHANGED <<listVars, xlateVars, sessionVars, _fs, errno, crashed, lastYield,
                   fileVars>>

\* vio_module_shutdown on the session: the credentials are freed and set
\* to NULL, the transport session is destroyed and dav_session.ctx keeps
\* pointing at it
vio_module_shutdown(session) ==
    [session EXCEPT !.user = "NULL", !.pwd = "NULL", !.ctx = "destroyed"]

\* vio_module_shutdown, called once; ne_session_destroy dereferences the
\* session it is given, so a session that was never created ends the process
Shutdown ==
    /\ ~crashed
    /\ dav_session.ctx # "destroyed"
    /\ IF dav_session.ctx = "NULL"
       THEN /\ dav_session' = [dav_session EXCEPT !.user = "NULL", !.pwd = "NULL"]
            /\ crashed' = TRUE
            /\ ret' = Call("shutdown", -2, <<>>, <<>>, -1, NoBuf)
       ELSE /\ dav_session' = vio_module_shutdown(dav_session)
            /\ ret' = Call("shutdown", 0, <<>>, <<>>, -1, NoBuf)
            /\ UNCHANGED crashed
    /\ UNCHANGED <<listVars, xlateVars, _connected, _fs, errno, lastYield, fileVars>>

Next ==
    \/ Opendir
    \/ Readdir
    \/ Closedir
    \/ DestroyStat
    \/ Stat
    \/ Mkdir
    \/ Rmdir
    \/ Rename
    \/ Unlink
    \/ Utimes
    \/ ChmodChown

Spec == Init /\ [][Next]_vars

\* the adapter from module initialization through shutdown and after it
NextShutdown == Next \/ Shutdown

SpecShutdown == Init /\ [][NextShutdown]_vars

-----------------------------------------------------------------------------
(* SpecFile: one file handle, the temp file behind it and the server's object *)

\* the URIs the file operations are given: "ownclouds://joe:pw@h/d/a" and
\* the URI ne_uri_parse rejects
FileUris == {U_d_a, U_bad}

\* the buffers a caller writes: "", "x", "y" and "xy"
Bufs == {b \in {<<>>, <<120>>, <<121>>, <<120, 121>>} : Len(b) <= MaxFileLen}

\* the byte counts a caller asks _read for
ReadCounts == {1, 2}

\* the classes of the final status a dispatched request can complete with:
\* 2xx, 4xx (403, 423) and 5xx (507)
StatusClasses == {2, 4, 5}

\* c_dirname of a path: the path without its last component and without
\* the slashes before it, "/" when nothing else is left
c_dirname(path) ==
    LET s    == StripSlashes(path)
        last == AfterLastSlash(s)
        d    == StripSlashes(SubSeq(s, 1, Len(s) - Len(last)))
    IN  IF d = <<>> THEN <<47>> ELSE d

\* mkstemp: the name of the temp file it creates, 0 when no name is left
mkstemp(fs) ==
    IF \E n \in TmpNames : fs[n] = NullStr
    THEN CHOOSE n \in TmpNames : fs[n] = NullStr /\ \A m \in TmpNames : fs[m] = NullStr => n <= m
    ELSE 0

\* the local files once _close lets go of the handle whose temp file is
\* name; _close does not look at the value rv it is about to return
close_unlink_on_success(fs, name, rv) ==
    IF rv = 0 THEN [fs EXCEPT ![name] = NullStr] ELSE fs

close_unlink(fs, name, rv) == [fs EXCEPT ![name] = NullStr]

\* an _open that leaves the errno _stat has set
open_nodir_errno_of_stat(stat_errno) == stat_errno

\* the errno of _open after the _stat of the parent failed with stat_errno
open_nodir_errno(stat_errno) == ENOENT

\* the transfer_context _open hands back
NewHandle(method, fd, name, path, expect) ==
    [open |-> TRUE, method |-> method, fd |-> fd, tmpFileName |-> name,
     bytes_written |-> 0, pos |-> 0, path |-> path,
     given |-> <<>>, allfull |-> TRUE, expect |-> expect, got |-> <<>>,
     eof |-> FALSE, rerr |-> 0]

\* the first n bytes of s
Take(s, n) == SubSeq(s, 1, n)

InitFile == Init

\* _open, and _creat, which is _open with O_CREAT|O_WRONLY|O_TRUNC followed
\* by a write of no bytes; wr says whether flags hold O_WRONLY, O_RDWR or
\* O_CREAT.  errno as the local system calls set it is not modelled.
Open ==
    /\ ~crashed
    /\ ~fh.open
    /\ \E op \in {"open", "creat"}, uri \in FileUris, wr \in BOOLEAN,
          env \in ConnectEnvs(_connected),
          hit \in IF _fs.name # NullStr /\ ~_fs.live THEN BOOLEAN ELSE {FALSE} :
       LET put    == wr \/ op = "creat"
           path   == _cleanPath(uri)
           c      == IF path = NullStr
                     THEN [rc |-> -1, connected |-> _connected, session |-> dav_session]
                     ELSE dav_connect(_connected, dav_session, uri, env)
           dir    == [uri EXCEPT !.path = c_dirname(uri.path)]
           cached == /\ _fs.name # NullStr
                     /\ IF _fs.live THEN strcmp(c_basename(dir.path), _fs.name) = 0
                        ELSE hit
           dpath  == _cleanPath(dir)
           sreqs  == IF put /\ ~cached THEN <<Request("PROPFIND", dpath)>> ELSE <<>>
           nosess == RequestCrashes(c.session, path)
           name   == mkstemp(tmpfs)
       IN  /\ op = "creat" => wr
           /\ _connected' = c.connected
           /\ dav_session' = c.session
           /\ \/ \* the URI does not parse: no handle
                 /\ path = NullStr
                 /\ Return(op, -1, uri, <<>>, -1, NoBuf, errno)
                 /\ UNCHANGED <<fh, tmpfs, remote, committed>>
              \/ \* _stat of the parent sends its PROPFIND on a NULL session
                 /\ path # NullStr /\ put /\ ~cached /\ nosess
                 /\ Crash(op, uri, sreqs)
                 /\ UNCHANGED <<fh, tmpfs, remote, committed>>
              \/ \* _stat of the parent fails
                 /\ path # NullStr /\ put /\ ~cached /\ ~nosess
                 /\ \E rc \in PropfindResults \ {NE_OK}, text \in SessionErrors :
                       Return(op, -1, uri, sreqs, rc, NoBuf,
                              open_nodir_errno(ne_session_error_errno(text)))
                 /\ UNCHANGED <<fh, tmpfs, remote, committed>>
              \/ \* mkstemp fails
                 /\ path # NullStr /\ (put => (cached \/ ~nosess))
                 /\ Return(op, -1, uri, sreqs, IF sreqs = <<>> THEN -1 ELSE NE_OK,
                           NoBuf, errno)
                 /\ UNCHANGED <<fh, tmpfs, remote, committed>>
              \/ \* the temp file exists and the request is built on a NULL session
                 /\ path # NullStr /\ (put => cached) /\ nosess /\ name # 0
                 /\ tmpfs' = [tmpfs EXCEPT ![name] = <<>>]
                 /\ Crash(op, uri, sreqs)
                 /\ UNCHANGED <<fh, remote, committed>>
              \/ \* write mode: ne_begin_request sends the PUT without a body
                 /\ path # NullStr /\ put /\ ~nosess /\ name # 0
                 /\ \E rc \in NeResults, klass \in StatusClasses :
                       /\ rc # NE_OK => klass = 2
                       /\ remote' = IF rc = NE_OK /\ klass = 2
                                    THEN [remote EXCEPT ![path] = <<>>]
                                    ELSE remote
                       /\ fh' = IF rc = NE_OK
                                THEN NewHandle("PUT", "rw", name, path, NullStr)
                                ELSE NoHandle
                       /\ Return(op, IF rc = NE_OK THEN 0 ELSE -1, uri,
                                 sreqs \o <<Request("PUT", path)>>, rc, NoBuf, errno)
                 /\ tmpfs' = [tmpfs EXCEPT ![name] = <<>>]
                 /\ committed' = [committed EXCEPT ![path] = NullStr]
              \/ \* read mode: ne_get downloads the object into the temp file
                 /\ path # NullStr /\ ~put /\ ~nosess /\ name # 0
                 /\ \E rc \in NeResults, close_ok \in BOOLEAN :
                       /\ rc = NE_OK => remote[path] # NullStr
                       /\ rc # NE_OK => close_ok
                       /\ tmpfs' = [tmpfs EXCEPT ![name] =
                                       IF rc = NE_OK THEN remote[path] ELSE <<>>]
                       /\ fh' = IF rc = NE_OK /\ close_ok
                                THEN NewHandle("GET", "none", name, path, committed[path])
                                ELSE NoHandle
                       /\ Return(op, IF rc = NE_OK /\ close_ok THEN 0 ELSE -1, uri,
                                 <<Request("GET", path)>>, rc, NoBuf, errno)
                 /\ UNCHANGED <<remote, committed>>
    /\ UNCHANGED <<listVars, xlateVars, _fs, lastYield, closeInfo>>

\* _write; short says whether write(2) accepts one byte less than count
Write ==
    /\ ~crashed
    /\ \E buf \in Bufs, short \in BOOLEAN :
       LET count   == Len(buf)
           written == IF short THEN count - 1 ELSE count
       IN  /\ short => (fh.open /\ fh.fd = "rw" /\ count > 0)
           /\ IF ~fh.open
              THEN /\ ret' = Call("write", -1, <<>>, <<>>, -1, NoBuf)
                   /\ UNCHANGED <<fh, tmpfs>>
              ELSE IF fh.fd = "none"
              THEN /\ ret' = Call("write", 0, fh.path, <<>>, -1, NoBuf)
                   /\ UNCHANGED <<fh, tmpfs>>
              ELSE IF fh.fd = "r"
              THEN /\ ret' = Call("write", -1, fh.path, <<>>, -1, NoBuf)
                   /\ UNCHANGED <<fh, tmpfs>>
              ELSE /\ Len(fh.given) + count <= MaxFileLen
                   /\ tmpfs' = [tmpfs EXCEPT ![fh.tmpFileName] =
                                   Take(@, fh.pos) \o Take(buf, written)]
                   /\ fh' = [fh EXCEPT !.pos = @ + written,
                                       !.bytes_written =
                                           IF written = count THEN @ + written ELSE @,
                                       !.given = @ \o buf,
                                       !.allfull = @ /\ written = count]
                   /\ ret' = Call("write", written, fh.path, <<>>, -1, NoBuf)
    /\ UNCHANGED <<listVars, xlateVars, sessionVars, _fs, errno, crashed, lastYield,
                   remote, committed, closeInfo>>

\* the offset of a download descriptor that is opened anew for every read
read_offset_reopened(ctx) == IF ctx.method = "GET" THEN 0 ELSE ctx.pos

\* the file offset read(2) starts at: the offset of the handle's
\* descriptor, which _read opens once and then keeps
read_offset(ctx) == ctx.pos

\* _read; env says which local call fails: open(2) or fstat(2) when the
\* temp file is opened, or read(2) itself, which then returns -1.
\* bytes_written is a size_t: the model keeps it as the representative
\* nearest 0 of its residue (-1 stands for SIZE_MAX)
Read ==
    /\ ~crashed
    /\ \E count \in ReadCounts,
          env \in IF ~fh.open THEN {"ok"}
                  ELSE IF fh.fd = "none" THEN {"ok", "open", "fstat", "read"}
                  ELSE {"ok", "read"} :
       IF ~fh.open
       THEN /\ ret' = Call("read", -1, <<>>, <<>>, -1, NoBuf)
            /\ UNCHANGED fh
       ELSE IF env = "open"
       THEN /\ ret' = Call("read", -1, fh.path, <<>>, -1, NoBuf)
            /\ UNCHANGED fh
       ELSE IF env = "fstat"
       THEN /\ ret' = Call("read", -1, fh.path, <<>>, -1, NoBuf)
            /\ fh' = [fh EXCEPT !.fd = "r"]
       ELSE IF env = "read"
       THEN /\ fh.rerr < MaxReadErrors
            /\ ret' = Call("read", -1, fh.path, <<>>, -1, NoBuf)
            /\ fh' = [fh EXCEPT !.fd = IF @ = "none" THEN "r" ELSE @,
                                !.bytes_written = @ + (-1),
                                !.rerr = @ + 1]
       ELSE LET file == tmpfs[fh.tmpFileName]
                start == read_offset(fh)
                end  == IF start + count < Len(file) THEN start + count ELSE Len(file)
                data == SubSeq(file, start + 1, end)
                len  == Len(data)
            IN  /\ fh' = [fh EXCEPT !.fd = IF @ = "none" THEN "r" ELSE @,
                                    !.pos = @ + len,
                                    !.bytes_written = @ + len,
                                    !.got = @ \o data,
                                    !.eof = @ \/ len = 0]
                /\ ret' = Call("read", len, fh.path, <<>>, -1, NoBuf)
    /\ UNCHANGED <<listVars, xlateVars, sessionVars, _fs, errno, crashed, lastYield,
                   tmpfs, remote, committed, closeInfo>>

\* the offsets and origins a caller passes to _lseek
SeekOffsets == {0, 1}
SeekOrigins == {"SEEK_SET", "SEEK_CUR", "SEEK_END"}

\* an _lseek that accepts an absolute position
lseek_return_absolute(offset, whence) == IF whence = "SEEK_SET" THEN offset ELSE -1

\* the value _lseek returns
lseek_return(offset, whence) == -1

\* _lseek
Lseek ==
    /\ ~crashed
    /\ \E offset \in SeekOffsets, whence \in SeekOrigins :
          ret' = Call("lseek", lseek_return(offset, whence),
                      IF fh.open THEN fh.path ELSE <<>>, <<>>, -1, NoBuf)
    /\ UNCHANGED <<listVars, xlateVars, sessionVars, _fs, errno, crashed, lastYield,
                   fileVars>>

\* _close on a handle _open returned; env says which local call of the
\* write-mode branch fails
Close ==
    /\ ~crashed
    /\ fh.open
    /\ IF fh.method = "PUT"
       THEN \E env \in {"ok", "close", "reopen", "fstat"}, rc \in NeResults,
               klass \in StatusClasses, size \in 0..Len(tmpfs[fh.tmpFileName]) :
            LET file       == tmpfs[fh.tmpFileName]
                dispatched == env # "reopen"
                rv         == IF env # "ok" \/ rc # NE_OK THEN -1 ELSE 0
            IN  /\ (~dispatched \/ rc # NE_OK) => klass = 2
                /\ ~dispatched => rc = NE_OK
                /\ env # "fstat" => size = Len(file)
                /\ remote' = IF dispatched /\ rc = NE_OK /\ klass = 2
                             THEN [remote EXCEPT ![fh.path] = Take(file, size)]
                             ELSE remote
                /\ committed' = [committed EXCEPT ![fh.path] =
                                    IF rv = 0 /\ fh.allfull THEN fh.given ELSE NullStr]
                /\ closeInfo' = [tmp |-> fh.tmpFileName, method |-> "PUT",
                                 dispatched |-> dispatched,
                                 rc |-> IF dispatched THEN rc ELSE -1,
                                 klass |-> IF dispatched /\ rc = NE_OK THEN klass ELSE 0]
                /\ tmpfs' = close_unlink(tmpfs, fh.tmpFileName, rv)
                /\ ret' = Call("close", rv, fh.path,
                               IF dispatched THEN <<Request("PUT", fh.path)>> ELSE <<>>,
                               IF dispatched THEN rc ELSE -1, NoBuf)
       ELSE /\ closeInfo' = [tmp |-> fh.tmpFileName, method |-> "GET",
                             dispatched |-> FALSE, rc |-> -1, klass |-> 0]
            /\ tmpfs' = close_unlink(tmpfs, fh.tmpFileName, 0)
            /\ ret' = Call("close", 0, fh.path, <<>>, -1, NoBuf)
            /\ UNCHANGED <<remote, committed>>
    /\ fh' = NoHandle
    /\ UNCHANGED <<listVars, xlateVars, sessionVars, _fs, errno, crashed, lastYield>>

\* _close on NULL: ret is set to -1 and the else branch reads writeCtx->fd
CloseNull ==
    /\ ~crashed
    /\ ~fh.open
    /\ crashed' = TRUE
    /\ ret' = Call("close", -2, <<>>, <<>>, -1, NoBuf)
    /\ closeInfo' = NoClose
    /\ UNCHANGED <<listVars, xlateVars, sessionVars, _fs, errno, lastYield,
                   fh, tmpfs, remote, committed>>

NextFile ==
    \/ Open
    \/ Write
    \/ Read
    \/ Lseek
    \/ Close
    \/ CloseNull

SpecFile == InitFile /\ [][NextFile]_vars

-----------------------------------------------------------------------------
(* SpecAuth: the transport challenges the connected adapter for credentials *)

\* a buffer ne_auth has not written to
NotWritten == "untouched"

\* what the user can type into the two prompts of the callback
Typed == {[user |-> "ann", pwd |-> "s3"], [user |-> "", pwd |-> ""]}

\* the two calls ne_auth makes of the callback: prompt, echo flag, verify flag
UsernamePrompt == [prompt |-> "Enter your username: ", echo |-> 1, verify |-> 0]
PasswordPrompt == [prompt |-> "Enter your password: ", echo |-> 0, verify |-> 0]

\* an ne_auth that asks the callback before it looks at the stored user
ne_auth_callback_first(session, authcb, attempt, bufs, typed) ==
    IF ~bufs
    THEN [rv |-> attempt, username |-> NotWritten, password |-> NotWritten,
          calls |-> <<>>]
    ELSE IF authcb # "NULL"
    THEN [rv |-> attempt, username |-> typed.user, password |-> typed.pwd,
          calls |-> <<UsernamePrompt, PasswordPrompt>>]
    ELSE IF session.user # "NULL"
    THEN [rv |-> attempt, username |-> session.user,
          password |-> IF session.pwd # "NULL" THEN session.pwd ELSE NotWritten,
          calls |-> <<>>]
    ELSE [rv |-> attempt, username |-> NotWritten, password |-> NotWritten,
          calls |-> <<>>]

\* ne_auth: the value it returns, what it leaves in the username and
\* password buffers, and the calls of the callback it makes; bufs says
\* whether both buffers are non-NULL
ne_auth(session, authcb, attempt, bufs, typed) ==
    IF ~bufs
    THEN [rv |-> attempt, username |-> NotWritten, password |-> NotWritten,
          calls |-> <<>>]
    ELSE IF session.user # "NULL"
    THEN [rv |-> attempt, username |-> session.user,
          password |-> IF session.pwd # "NULL" THEN session.pwd ELSE NotWritten,
          calls |-> <<>>]
    ELSE IF authcb # "NULL"
    THEN [rv |-> attempt, username |-> typed.user, password |-> typed.pwd,
          calls |-> <<UsernamePrompt, PasswordPrompt>>]
    ELSE [rv |-> attempt, username |-> NotWritten, password |-> NotWritten,
          calls |-> <<>>]

\* vio_module_init has stored a callback or NULL, and dav_connect has made
\* the session from a URI without or with credentials
InitAuth ==
    /\ _authcb \in {"NULL", "cb"}
    /\ challenges = <<>>
    /\ xin = [kind |-> "none", text |-> <<>>, code |-> 0]
    /\ xout = <<>>
    /\ \E u \in {U_d, U_d_a} :
          dav_session = dav_connect_fresh(NoSession, u, "ok").session
    /\ _connected = 1
    /\ InitListIdle
    /\ InitCallIdle
    /\ InitFileIdle

\* the server answers a request with 401 and the transport calls ne_auth
Challenge ==
    /\ Len(challenges) < MaxChallenges
    /\ \E attempt \in 0..MaxAttempt, bufs \in BOOLEAN, typed \in Typed :
          challenges' = Append(challenges,
                               [attempt |-> attempt, bufs |-> bufs, typed |-> typed,
                                out |-> ne_auth(dav_session, _authcb, attempt, bufs,
                                                typed)])
    /\ UNCHANGED <<listVars, xin, xout, _authcb, sessionVars, callVars, fileVars>>

NextAuth == Challenge

SpecAuth == InitAuth /\ [][NextAuth]_vars

-----------------------------------------------------------------------------
(* Properties of the catalog builder *)

\* the tier of a resource in the catalog order
TierOf(r) ==
    IF r.type = resr_error THEN 0 ELSE IF r.type = resr_collection THEN 1 ELSE 2

\* two decoded paths name the same resource: equal but for trailing slashes
SamePath(a, b) == StripSlashes(a) = StripSlashes(b)

\* the positions of the catalog that hold the listing's own target
TargetPositions ==
    {i \in 1..Len(fetchCtx.list) :
        SamePath(fetchCtx.list[i].uri, ne_path_unescape(fetchCtx.target))}

\* C1: after every results() call, whatever the arrival order, Error entries
\* precede Collection entries, which precede Normal entries, and inside the
\* Collection tier and inside the Normal tier the URIs are non-decreasing
\* byte-wise.
C1_CatalogOrdered ==
    \A i, j \in 1..Len(fetchCtx.list) :
        i < j =>
            /\ TierOf(fetchCtx.list[i]) <= TierOf(fetchCtx.list[j])
            /\ (TierOf(fetchCtx.list[i]) = TierOf(fetchCtx.list[j])
                /\ TierOf(fetchCtx.list[i]) # 0)
               => strcmp(fetchCtx.list[i].uri, fetchCtx.list[j].uri) <= 0

\* C1 witness: a catalog of two collections and two files whose latest
\* arrival was spliced in before entries that had arrived earlier
C1_Witness ==
    /\ Len(fetchCtx.list) = 4
    /\ Cardinality({i \in 1..4 : fetchCtx.list[i].type = resr_collection}) = 2
    /\ \E i \in 1..3 : fetchCtx.list[i].uri = ne_path_unescape(lastHref)

\* C2: a listing that excludes its target (opendir) holds no entry for the
\* target URI; a listing that includes it (stat) holds the target's entry
\* exactly once, once the server has delivered it.
C2_TargetExclusion ==
    fetchCtx.target # NullStr =>
        /\ fetchCtx.include_target = 0 => TargetPositions = {}
        /\ (fetchCtx.include_target = 1
            /\ \E h \in arrived : SamePath(ne_path_unescape(h),
                                           ne_path_unescape(fetchCtx.target)))
           => Cardinality(TargetPositions) = 1

\* C2 witness: a finished opendir listing of "/d" whose answer held the
\* collection's own href "/d/" besides two children
C2_Witness ==
    /\ lphase = "done"
    /\ fetchCtx.target = T_d
    /\ fetchCtx.include_target = 0
    /\ T_dslash \in arrived
    /\ Len(fetchCtx.list) = 2

-----------------------------------------------------------------------------
(* Properties of the status translator *)

\* the status code that starts the error text under translation, if any
XinHasCode == xin.kind = "text" /\ strtol(xin.text).rest # xin.text
XinCode == strtol(xin.text).val

\* the codes the switch sends to the success label
SuccessCodes == {200, 201, 202, 203, 204, 205, 207, 304}

\* C9 as claimed: ne_session_error_errno maps every status code from 200
\* through 299, and 304, to Success (0).
C9_Original ==
    (XinHasCode /\ ((XinCode >= 200 /\ XinCode <= 299) \/ XinCode = 304))
        => \A i \in 1..Len(xout) : xout[i] = 0

\* C9 amended: ne_session_error_errno maps 200 to 205, 207 and 304 to
\* Success (0), and every other code from 200 through 299 (206 and 208 to
\* 299) to IOError (EIO).
C9_SuccessCodes ==
    XinHasCode =>
        /\ XinCode \in SuccessCodes => \A i \in 1..Len(xout) : xout[i] = 0
        /\ (XinCode >= 200 /\ XinCode <= 299 /\ XinCode \notin SuccessCodes)
           => \A i \in 1..Len(xout) : xout[i] = EIO

\* C9 witness: the text "206 N" has been translated, to EIO
C9_Witness ==
    /\ xin.kind = "text"
    /\ xin.text = <<50, 48, 54, 32, 78>>
    /\ xout # <<>>
    /\ xout[1] = EIO

\* C10: the translator maps 401, 402, 407 to EPERM; 301, 303, 404, 410 to
\* ENOENT; 408, 504 to EAGAIN; 423 to EACCES; 400, 403, 405, 409, 411, 412,
\* 414, 415, 424, 501 to EINVAL; 413, 507 to ENOSPC; every code that section
\* 4.4 does not list to EIO; and two calls on the same text agree.
C10_StatusMapping ==
    /\ \A i, j \in 1..Len(xout) : xout[i] = xout[j]
    /\ XinHasCode =>
        \A i \in 1..Len(xout) :
            /\ XinCode \in {401, 402, 407} => xout[i] = EPERM
            /\ XinCode \in {301, 303, 404, 410} => xout[i] = ENOENT
            /\ XinCode \in {408, 504} => xout[i] = EAGAIN
            /\ XinCode = 423 => xout[i] = EACCES
            /\ XinCode \in {400, 403, 405, 409, 411, 412, 414, 415, 424, 501}
               => xout[i] = EINVAL
            /\ XinCode \in {413, 507} => xout[i] = ENOSPC
            /\ (XinCode \notin {401, 402, 407, 301, 303, 404, 410, 408, 504, 423,
                                400, 403, 405, 409, 411, 412, 414, 415, 424, 501,
                                413, 507, 304}
                /\ ~(XinCode >= 200 /\ XinCode <= 299))
               => xout[i] = EIO

\* C10 witness: the text " 423 N" has been translated twice, to EACCES
C10_Witness ==
    /\ xin.kind = "text"
    /\ xin.text = <<32, 52, 50, 51, 32, 78>>
    /\ Len(xout) = 2
    /\ xout[2] = EACCES

\* C11: ne_error_to_errno maps OK and ERROR to 0; AUTH and PROXYAUTH to
\* EACCES; CONNECT, TIMEOUT and RETRY to EAGAIN; FAILED to EINVAL; REDIRECT
\* to ENOENT; LOOKUP and every code it does not recognize to EIO.
C11_TransportMapping ==
    xin.kind = "code" =>
        \A i \in 1..Len(xout) :
            xout[i] = CASE xin.code \in {0, 1} -> 0
                        [] xin.code \in {3, 4} -> EACCES
                        [] xin.code \in {5, 6, 8} -> EAGAIN
                        [] xin.code = 7 -> EINVAL
                        [] xin.code = 9 -> ENOENT
                        [] OTHER -> EIO

\* C11 witness: the generic error code has been translated, to 0
C11_Witness ==
    /\ xin.kind = "code"
    /\ xin.code = NE_ERROR
    /\ Len(xout) >= 1
    /\ xout[1] = 0

\* C28: on a challenge with both buffers present, a stored user is put into
\* the username buffer (and the stored password into the password buffer)
\* and the callback is not called; without a stored user a registered
\* callback is called twice, for the username with the flag set and then
\* for the password, and its answers fill the buffers; every challenge
\* returns the attempt count it was given
C28_AuthSources ==
    \A i \in 1..Len(challenges) :
        LET c == challenges[i]
        IN  /\ c.out.rv = c.attempt
            /\ (c.bufs /\ dav_session.user # "NULL")
                  => /\ c.out.username = dav_session.user
                     /\ dav_session.pwd # "NULL" => c.out.password = dav_session.pwd
                     /\ c.out.calls = <<>>
            /\ (c.bufs /\ dav_session.user = "NULL" /\ _authcb # "NULL")
                  => /\ Len(c.out.calls) = 2
                     /\ c.out.calls[1].prompt = "Enter your username: "
                     /\ c.out.calls[1].echo = 1
                     /\ c.out.calls[2].prompt = "Enter your password: "
                     /\ c.out.calls[2].echo = 0
                     /\ c.out.username = c.typed.user
                     /\ c.out.password = c.typed.pwd

\* C28 witness: one challenge was answered from the stored credentials and
\* one, in a process without them, through the callback, at attempt 1
C28_Witness ==
    /\ Len(challenges) = 2
    /\ challenges[2].bufs
    /\ challenges[2].attempt = 1
    /\ challenges[2].out.rv = 1
    /\ \/ dav_session.user = "joe" /\ challenges[2].out.username = "joe"
       \/ /\ dav_session.user = "NULL"
          /\ _authcb = "cb"
          /\ challenges[2].out.username = "ann"

\* C29: a challenge that finds neither a stored user nor a callback is
\* failed: ne_auth returns a non-zero value, at attempt 0 as well
C29_AuthGivesUp ==
    \A i \in 1..Len(challenges) :
        (challenges[i].bufs /\ dav_session.user = "NULL" /\ _authcb = "NULL")
            => challenges[i].out.rv # 0

\* results() drops the entry of href h: the context has no target, or h is
\* the target of a listing that excludes it
Skipped(h) ==
    \/ fetchCtx.target = NullStr
    \/ ne_path_compare(fetchCtx.target, h) = 0 /\ fetchCtx.include_target = 0

\* the key (tier, URI) of a does not follow the key of b
KeyLeq(a, b) ==
    \/ TierOf(a) < TierOf(b)
    \/ TierOf(a) = TierOf(b) /\ strcmp(a.uri, b.uri) <= 0

\* the entries of S, sorted once by the key (tier, URI)
RECURSIVE SortByKey(_)
SortByKey(S) ==
    IF S = {} THEN <<>>
    ELSE LET m == CHOOSE x \in S : \A y \in S : KeyLeq(x, y)
         IN  <<m>> \o SortByKey(S \ {m})

\* C30: for entries with pairwise distinct URIs, in whatever order they
\* arrive, the catalog that results() builds by insertion is the sequence
\* got by collecting the same entries and sorting them once by (tier, URI);
\* it holds every entry that was not skipped once, and no other
C30_SortOnInsertIsSortOnce ==
    LET kept == {h \in arrived : ~Skipped(h)}
        S    == {fetchCtx.list[i] : i \in 1..Len(fetchCtx.list)}
    IN  /\ Len(fetchCtx.list) = Cardinality(kept)
        /\ {r.uri : r \in S} = {ne_path_unescape(h) : h \in kept}
        /\ fetchCtx.list = SortByKey(S)

\* C30 witness: a finished listing of three entries whose last arrival
\* went to the head of the catalog
C30_Witness ==
    /\ lphase = "done"
    /\ Len(fetchCtx.list) = 3
    /\ fetchCtx.list[1].uri = ne_path_unescape(lastHref)
    /\ fetchCtx.list[1].type = resr_collection

\* s is a non-empty string of decimal digits
AllDigits(s) == s # <<>> /\ \A i \in 1..Len(s) : s[i] \in 48..57

\* the number a string of decimal digits writes
RECURSIVE DecimalValue(_)
DecimalValue(s) ==
    IF s = <<>> THEN 0
    ELSE 10 * DecimalValue(SubSeq(s, 1, Len(s) - 1)) + (s[Len(s)] - 48)

\* C31: the entry results() has just listed is a Collection exactly when
\* its property set reports no content length and a resource type of
\* collection, and Normal otherwise; its size is the number the content
\* length writes when that is all digits, and 0 when the content length is
\* missing or carries a character that is no digit
C31_ClassifyAndSize ==
    \A i \in 1..Len(fetchCtx.list) :
       fetchCtx.list[i].uri = ne_path_unescape(lastHref) =>
          /\ fetchCtx.list[i].type =
                IF lastSet.clength = NullStr /\ lastSet.resourcetype = RT_collection
                THEN resr_collection ELSE resr_normal
          /\ fetchCtx.list[i].size =
                IF lastSet.clength # NullStr /\ AllDigits(lastSet.clength)
                THEN DecimalValue(lastSet.clength) ELSE 0

\* C31 witness: the latest entry reported a collection together with a
\* content length and was listed Normal, next to an entry whose content
\* length had trailing text and whose size is 0
C31_Witness ==
    /\ lastSet.clength = <<48>>
    /\ lastSet.resourcetype = RT_collection
    /\ \E i, j \in 1..Len(fetchCtx.list) :
          /\ fetchCtx.list[i].uri = ne_path_unescape(lastHref)
          /\ fetchCtx.list[i].type = resr_normal
          /\ fetchCtx.list[j].modtime = -1
          /\ fetchCtx.list[j].size = 0

\* C32: when the depth-one listing that stat runs for u (the target is
\* included) has delivered u's own entry, with or without entries of u's
\* children, the type, size and modified time stat hands back are those of
\* u's own entry, whatever kinds the server reported
C32_StatReturnsOwnEntry ==
    (lphase = "done" /\ fetchCtx.target # NullStr /\ fetchCtx.include_target = 1) =>
       \A h \in arrived : \A i \in 1..Len(fetchCtx.list) :
          (ne_path_compare(fetchCtx.target, h) = 0
             /\ fetchCtx.list[i].uri = ne_path_unescape(h)) =>
          LET own == resourceToFileStat(fetchCtx.list[i])
              buf == stat_buf(fetchCtx)
          IN  buf.type = own.type /\ buf.size = own.size /\ buf.mtime = own.mtime

-----------------------------------------------------------------------------
(* Properties of the directory and namespace operations *)

\* C4: a stat whose base name equals the name of the entry the latest
\* yielding readdir returned gives that entry's type, size, modified time
\* and field mask, and issues no request.
C4_StatCacheFastPath ==
    (ret.op = "stat" /\ lastYield.name # NullStr
     /\ c_basename(ret.uri) = lastYield.name)
        => /\ ret.rc = 0
           /\ ret.reqs = <<>>
           /\ ret.buf.type = lastYield.type
           /\ ret.buf.size = lastYield.size
           /\ ret.buf.mtime = lastYield.mtime
           /\ ret.buf.fields = lastYield.fields

\* C38: in every reachable state the name the stat cache points to, if
\* any, is memory that is still allocated, so no stat ever compares its
\* base name with a released name
C38_CacheNameAllocated ==
    /\ [](_fs.name # NullStr => _fs.live)
    /\ [][ret'.op = "stat" /\ ret' # ret /\ _fs.name # NullStr => _fs.live]_vars

\* C7: unlink returns success only when its delete request succeeded.
C7_UnlinkReportsFailure ==
    (ret.op = "unlink" /\ ret.rc = 0) => ret.ne = NE_OK

\* C8: whenever mkdir, rmdir, rename, utimes, opendir or stat returns
\* failure, errno is a taxonomy member other than Success (non-zero).
C8_FailureSetsErrno ==
    (ret.op \in {"mkdir", "rmdir", "rename", "utimes", "opendir", "stat"}
     /\ ret.rc = -1)
        => errno # 0

\* C12: a stat that takes the network path and whose listing succeeds never
\* returns success with the type, size and modified-time fields unfilled: a
\* listing without an entry makes it return failure with ENOENT
C12_StatEmptyListingFails ==
    (ret.op = "stat" /\ ret.reqs # <<>> /\ ret.ne = NE_OK)
        => \/ ret.rc = 0 /\ {"MTIME", "SIZE"} \subseteq ret.buf.fields
           \/ ret.rc = -1 /\ errno = ENOENT

\* C14: when the listing request of opendir returns a non-success result,
\* opendir returns NULL with errno from the status translator, and never a
\* catalog of the entries parsed before the failure
C14_OpendirNoPartialCatalog ==
    (ret.op = "opendir" /\ ret.reqs # <<>> /\ ret.ne # NE_OK /\ ret.rc # -2)
        => /\ ret.rc = -1
           /\ fetchCtx = NoFetchCtx
           /\ lphase = "idle"
           /\ errno \in {ne_session_error_errno(t) : t \in SessionErrors}

\* C14 witness: an opendir whose PROPFIND timed out has returned NULL with
\* ENOENT, the translation of the session's "404"
C14_Witness ==
    /\ ret.op = "opendir"
    /\ ret.ne = NE_TIMEOUT
    /\ ret.rc = -1
    /\ errno = ENOENT
    /\ fetchCtx = NoFetchCtx

\* this step is a call of _readdir (and not the caller destroying a record)
ReaddirStep == ret'.op = "readdir" /\ ~(_fs.live /\ ~_fs'.live)

\* C15: opendir leaves the cursor on the first entry; each readdir returns
\* the entry under the cursor and moves the cursor one entry forward, so
\* the first n calls return the n entries in catalog order, each once;
\* every call after that returns NULL; and readdir never changes the
\* catalog's entries or their order
C15_ReaddirIteration ==
    /\ []((ret.op = "opendir" /\ ret.rc = 0)
            => fetchCtx.currResource = IF fetchCtx.list = <<>> THEN 0 ELSE 1)
    /\ [][ReaddirStep =>
            /\ fetchCtx'.list = fetchCtx.list
            /\ IF fetchCtx.currResource = 0
               THEN /\ ret'.rc = -1
                    /\ fetchCtx'.currResource = 0
               ELSE LET i == fetchCtx.currResource
                        r == fetchCtx.list[i]
                    IN  /\ ret'.rc = 0
                        /\ lastYield'.name = r.name
                        /\ ret'.buf.size = r.size
                        /\ ret'.buf.mtime = r.modtime
                        /\ fetchCtx'.currResource =
                              IF i = Len(fetchCtx.list) THEN 0 ELSE i + 1]_vars

\* C15 witness: after both entries of a catalog of two were returned, a
\* third readdir has returned NULL
C15_Witness ==
    /\ lphase = "open"
    /\ Len(fetchCtx.list) = 2
    /\ fetchCtx.currResource = 0
    /\ ret.op = "readdir"
    /\ ret.rc = -1
    /\ lastYield.name = fetchCtx.list[2].name

\* C16: closedir returns success and frees every Resource of the catalog
\* once, the target and the handle, wherever the cursor stands; no Resource
\* of the catalog stays allocated
C16_ClosedirReleasesAll ==
    ret.op = "closedir"
        => /\ ret.rc = 0
           /\ \A i \in 1..Len(ret.freed.res) : ret.freed.res[i] = 1
           /\ ret.freed.target = 1
           /\ ret.freed.handle = 1
           /\ fetchCtx = NoFetchCtx

\* C16 witness: a catalog of two entries has been closed with the cursor on
\* its second entry
C16_Witness ==
    /\ ret.op = "closedir"
    /\ Len(ret.freed.res) = 2
    /\ ret.freed.cursor = 2
    /\ ret.freed.res = <<1, 1>>

\* C19: chmod and chown return 0 for every argument, do not connect, issue
\* no request, and leave the session, the connected flag, the stat cache
\* and every open handle as they were
C19_ChmodChownNoOp ==
    [][(ret'.op \in {"chmod", "chown"} /\ ret' # ret)
          => /\ ret'.rc = 0
             /\ ret'.reqs = <<>>
             /\ dav_session' = dav_session
             /\ _connected' = _connected
             /\ _fs' = _fs
             /\ fetchCtx' = fetchCtx
             /\ lphase' = lphase
             /\ fh' = fh
             /\ errno' = errno]_vars

\* C19 witness: chmod has returned 0 for the URI that does not parse, with a
\* session connected, a directory handle open and the stat cache filled
C19_Witness ==
    /\ ret.op = "chmod"
    /\ ret.rc = 0
    /\ ret.uri = U_bad.path
    /\ _connected = 1
    /\ lphase = "open"
    /\ _fs.name # NullStr

\* C20: utimes with a NULL times argument (the only utimes that returns
\* without a request) returns -1 with EINVAL
C20_UtimesNullTimes ==
    (ret.op = "utimes" /\ ret.reqs = <<>>)
        => (ret.rc = -1 /\ errno = EINVAL)

DirMode ==
    [fmt |-> "S_IFDIR", perm |-> {"rusr", "wusr", "xusr", "rgrp", "xgrp", "roth", "xoth"}]
FileMode == [fmt |-> "S_IFREG", perm |-> {"rusr", "wusr", "rgrp", "roth"}]

\* C22: the mode of a stat that filled its buffer from an entry, cached or
\* listed, is fixed by the entry's kind alone: S_IFDIR with rwxr-xr-x for a
\* directory, S_IFREG with rw-r--r-- for anything else
C22_ModeFromKindOnly ==
    (ret.op = "stat" /\ ret.rc = 0 /\ ret.buf.fields # {})
        => ret.buf.mode = IF ret.buf.type = "DIRECTORY" THEN DirMode ELSE FileMode

\* C22 witness: a stat answered from the cache has returned a directory
\* with the directory mode
C22_Witness ==
    /\ ret.op = "stat"
    /\ ret.rc = 0
    /\ ret.reqs = <<>>
    /\ ret.buf.type = "DIRECTORY"
    /\ ret.buf.mode = DirMode

\* C23: a call hands a request to the transport only while the connected
\* flag is set: it has connected before, and hands over none when connect
\* failed
C23_RequestsOnlyWhenConnected ==
    ret.reqs # <<>> => _connected = 1

\* C24: at most one session is ever created; once dav_connect has
\* succeeded, a later call of it, for any URI, succeeds (no mkdir, rmdir or
\* rename returns on its connect-failed path), leaves the credentials and
\* the session as they are and leaves the flag set
C24_SingleSession ==
    /\ [](dav_session.created <= 1)
    /\ [][_connected = 1
             => /\ _connected' = 1
                /\ dav_session' = dav_session
                /\ ~(/\ ret' # ret
                     /\ ret'.op \in {"mkdir", "rmdir", "rename"}
                     /\ ret'.rc = -1
                     /\ ret'.reqs = <<>>)]_vars

\* C24 witness: on the session that "owncloud://h/d" created, without
\* credentials, an rmdir of "ownclouds://joe:pw@h/d/a" has connected again
\* and succeeded
C24_Witness ==
    /\ ret.op = "rmdir"
    /\ ret.rc = 0
    /\ ret.uri = H_a
    /\ _connected = 1
    /\ dav_session.created = 1
    /\ dav_session.user = "NULL"

\* a mkdir, rmdir or rename has returned on its connect-failed path
ConnectFailed(r) ==
    /\ r.op \in {"mkdir", "rmdir", "rename"}
    /\ r.rc = -1
    /\ r.reqs = <<>>

\* C25: a dav_connect that fails (the URI does not parse, ne_sock_init or
\* ne_session_create fails) returns failure and leaves the connected flag
\* clear; the flag is set only if a session has been created
C25_ConnectedMeansSession ==
    /\ _connected \in {0, 1}
    /\ _connected = 1 => (dav_session.ctx = "live" /\ dav_session.created >= 1)
    /\ ConnectFailed(ret) => _connected = 0

\* C25 witness: a mkdir has returned failure because dav_connect failed
\* after it had stored the credentials of the URI
C25_Witness ==
    /\ ConnectFailed(ret)
    /\ ret.op = "mkdir"
    /\ dav_session.user = "joe"
    /\ dav_session.ctx = "NULL"
    /\ _connected = 0

\* C26: a mkdir, rmdir, rename or unlink that returns without a request,
\* because connect failed, returns -1 with EIO
C26_ConnectFailureIsEIO ==
    (ret.op \in {"mkdir", "rmdir", "rename", "unlink"} /\ ret.reqs = <<>>)
        => (ret.rc = -1 /\ errno = EIO)

\* the scheme of the URI of Uris whose path is p
SchemeOfPath(p) == (CHOOSE u \in Uris : u.path = p).scheme

\* C27: when dav_connect creates the session, the protocol it has chosen
\* is "https" for the scheme "ownclouds" and "http" for every other scheme
C27_ProtocolFromScheme ==
    [][(dav_session.ctx # "live" /\ dav_session'.ctx = "live")
          => dav_session'.protocol =
                IF SchemeOfPath(ret'.uri) = "ownclouds" THEN "https" ELSE "http"]_vars

\* C39: after vio_module_shutdown has returned the stored credentials are
\* cleared and the session is destroyed; from then on the connected flag
\* does not report a session, and no operation issues a request while the
\* session it would use is the destroyed one
C39_NoRequestAfterShutdown ==
    /\ []((ret.op = "shutdown" /\ ~crashed)
            => /\ dav_session.user = "NULL"
               /\ dav_session.pwd = "NULL"
               /\ dav_session.ctx = "destroyed")
    /\ [](dav_session.ctx = "destroyed" => _connected = 0)
    /\ [][(ret' # ret /\ ret'.reqs # <<>>) => dav_session'.ctx # "destroyed"]_vars

-----------------------------------------------------------------------------
(* Properties of the file handle *)

\* C3: when a file was opened for writing, b1..bk were written with every
\* write accepted in full and close reported success, a later read-mode open
\* of the same URI followed by sequential reads until one returns 0 yields
\* exactly b1..bk in order
C3_RoundTrip ==
    (fh.open /\ fh.method = "GET" /\ fh.eof /\ fh.expect # NullStr)
        => fh.got = fh.expect

\* C5: once close has returned on a handle of open or creat, with success
\* or with failure, in read mode or in write mode, the handle's temp file
\* is gone from local storage and the handle is released
C5_TempFileRemoved ==
    (ret.op = "close" /\ ret.rc \in {0, -1})
        => (~fh.open /\ tmpfs[closeInfo.tmp] = NullStr)

\* a write-mode close has failed after bytes had been written to its temp
\* file
C5_Witness ==
    /\ ret.op = "close"
    /\ ret.rc = -1
    /\ closeInfo.method = "PUT"
    /\ closeInfo.dispatched
    /\ closeInfo.rc # NE_OK
    /\ ~fh.open
    /\ tmpfs[closeInfo.tmp] = NullStr

\* C6: a write-mode close whose upload is dispatched and completes with a
\* final status outside 2xx returns failure
C6_CloseRequires2xx ==
    (ret.op = "close" /\ closeInfo.dispatched /\ closeInfo.rc = NE_OK
     /\ closeInfo.klass # 2)
        => ret.rc = -1

\* the latest call was an _open or _creat in write mode that returned
\* after the _stat of the parent had failed
OpenStatFailed(r) ==
    /\ r.op \in {"open", "creat"}
    /\ r.rc # -2
    /\ r.reqs # <<>>
    /\ r.reqs[Len(r.reqs)].method = "PROPFIND"
    /\ r.ne # NE_OK

\* C13: an open with a write flag whose stat of the parent collection fails
\* returns no handle with ENOENT, having created no temp file and having
\* created or begun no upload request
C13_OpenNoParent ==
    [][OpenStatFailed(ret') =>
          /\ ret'.rc = -1
          /\ errno' = ENOENT
          /\ fh' = NoHandle
          /\ tmpfs' = tmpfs
          /\ \A i \in 1..Len(ret'.reqs) : ret'.reqs[i].method # "PUT"]_vars

\* C13 witness: a creat has returned NULL after the PROPFIND on the parent
\* timed out; no temp file exists
C13_Witness ==
    /\ ret.op = "creat"
    /\ OpenStatFailed(ret)
    /\ ret.ne = NE_TIMEOUT
    /\ errno = ENOENT
    /\ \A n \in TmpNames : tmpfs[n] = NullStr

\* C17: while a write-mode handle is open, no call has sent anything of the
\* upload to the server: open and write issue no PUT request and leave the
\* remote object as it was; only close dispatches the upload
C17_UploadOnlyAtClose ==
    [][(fh'.open /\ fh'.method = "PUT")
          => /\ remote' = remote
             /\ \A i \in 1..Len(ret'.reqs) : ret'.reqs[i].method # "PUT"]_vars

\* C18: lseek returns -1 for every handle, offset and origin, issues no
\* request, and leaves the handle's descriptor, byte counter and temp file
\* as they were
C18_LseekUnsupported ==
    [][ret'.op = "lseek"
          => /\ ret'.rc = -1
             /\ ret'.reqs = <<>>
             /\ fh' = fh
             /\ tmpfs' = tmpfs
             /\ remote' = remote]_vars

\* C18 witness: lseek has returned -1 on a write-mode handle that has taken
\* bytes
C18_Witness ==
    /\ ret.op = "lseek"
    /\ ret.rc = -1
    /\ fh.open
    /\ fh.method = "PUT"
    /\ fh.bytes_written > 0

\* the name, type, size, modified time and field mask the stat cache holds
CacheContent(c) == <<c.name, c.type, c.size, c.mtime, c.fields>>

\* C33: a readdir call that yields an entry leaves in the stat cache that
\* entry's name, type, size, modified time and field mask; every other step
\* (stat on either path, opendir, closedir, a readdir at the end of the
\* directory, mkdir, rmdir, rename, unlink, utimes, chmod, chown) leaves
\* what the cache holds unchanged
C33_CacheWrittenOnlyByReaddir ==
    [][IF ReaddirStep /\ fetchCtx.currResource # 0
       THEN LET r == fetchCtx.list[fetchCtx.currResource]
            IN  CacheContent(_fs') =
                   <<r.name,
                     IF r.type = resr_collection THEN "DIRECTORY" ELSE "REGULAR",
                     r.size, r.modtime, {"TYPE", "MTIME", "SIZE"}>>
       ELSE CacheContent(_fs') = CacheContent(_fs)]_vars

\* C33 witness: the cache holds the file entry a readdir yielded, size 10,
\* after the directory was closed and a later stat went to the network
C33_Witness ==
    /\ _fs.name # NullStr
    /\ _fs.type = "REGULAR"
    /\ _fs.size = 10
    /\ lphase = "idle"
    /\ ret.op = "stat"
    /\ ret.reqs # <<>>

\* C34: an open or creat that returns no handle leaves no temporary file
\* behind: every name under /tmp that was free before the call is free
\* after it, and no handle is open
C34_FailedOpenLeavesNoTempFile ==
    [][(ret'.op \in {"open", "creat"} /\ ret'.rc = -1) =>
          /\ ~fh'.open
          /\ \A n \in TmpNames : tmpfs[n] = NullStr => tmpfs'[n] = NullStr]_vars

\* C35: right after a read-mode open has returned a handle the temp file
\* holds the whole remote object and the handle's descriptor is -1; a read
\* that returns data leaves the descriptor open read-only and a descriptor
\* that is open stays the same one; what the reads have returned so far,
\* put end to end, is the start of the downloaded content, each read adding
\* as many bytes as it returned; and a read returns 0 exactly at the end
C35_ReadModeSequentialReads ==
    /\ []((ret.op = "open" /\ ret.rc = 0 /\ fh.open /\ fh.method = "GET")
            => /\ tmpfs[fh.tmpFileName] = remote[fh.path]
               /\ fh.fd = "none")
    /\ []((fh.open /\ fh.method = "GET")
            => IF Len(fh.got) > Len(tmpfs[fh.tmpFileName]) THEN FALSE
               ELSE fh.got = Take(tmpfs[fh.tmpFileName], Len(fh.got)))
    /\ [][(ret'.op = "read" /\ fh.open /\ fh.method = "GET") =>
             /\ fh.fd = "r" => fh'.fd = "r"
             /\ ret'.rc >= 0 =>
                   /\ fh'.fd = "r"
                   /\ Len(fh'.got) = Len(fh.got) + ret'.rc
                   /\ ret'.rc = 0 <=> Len(fh.got) = Len(tmpfs[fh.tmpFileName])]_vars

\* C35 witness: a read-mode handle on an object of two bytes has returned
\* both, one read(2) in between having failed, and the latest read
\* returned 0
C35_Witness ==
    /\ fh.open /\ fh.method = "GET"
    /\ Len(tmpfs[fh.tmpFileName]) = 2
    /\ fh.got = tmpfs[fh.tmpFileName]
    /\ fh.rerr = 1
    /\ ret.op = "read" /\ ret.rc = 0

\* the bytes the read and write calls on handle h have moved: the offset
\* of its descriptor, which nothing else advances
Transferred(h) == h.pos

\* C36: the transferred-byte counter of a handle is 0 when open or creat
\* returns it, never decreases while the handle is open, and equals the
\* number of bytes the read and write calls on the handle have moved
C36_TransferCounter ==
    /\ []((ret.op \in {"open", "creat"} /\ ret.rc = 0 /\ fh.open)
            => fh.bytes_written = 0)
    /\ [](fh.open => fh.bytes_written = Transferred(fh))
    /\ [][(fh.open /\ fh'.open) => fh'.bytes_written >= fh.bytes_written]_vars

\* C37: close called with a NULL handle returns -1; it dereferences no
\* handle, leaves every temporary file as it is and issues no request
C37_CloseNullReturnsFailure ==
    [][(ret'.op = "close" /\ ~fh.open) =>
          /\ ret'.rc = -1
          /\ ~crashed'
          /\ tmpfs' = tmpfs
          /\ ret'.reqs = <<>>]_vars

====
